---------------------------- MODULE Spec2Model ----------------------------
(***************************************************************************)
(* Model of payroll_sheet's Monthly Payroll document: the PAYE bracket     *)
(* function, the forward deduction computation, the gross-for-take-home    *)
(* solver, the per-row calculation and the two aggregations.               *)
(*                                                                         *)
(* Numbers.  The program computes in Python floats.  The model computes    *)
(* the same expressions exactly.  A real value x >= 0 is the record        *)
(* [w |-> whole part, f |-> numerator of the fractional part over Unit],   *)
(* Unit = 11 * 10^6 * 2^60.  Every rate of the program is a multiple of    *)
(* 1/1000 and is applied at most twice in a row (10^6), the heuristic      *)
(* start T / 0.55 is T * 100 / 55 (the factor 11), and every bisection     *)
(* step halves (2^60), so all divisions are exact as long as               *)
(* max_iter <= 60.  The numerator exceeds the machine integers of          *)
(* the model checker and is written in five limbs of base 10^6, least      *)
(* significant first.  Float rounding error (about 1e-11 at these          *)
(* magnitudes) is not modelled.                                            *)
(***************************************************************************)
EXTENDS Integers, Sequences, FiniteSets

\* ------------------------------------------------------------------------
\* Naturals below 10^30 written in five limbs.

Base == 10^6

BigZero == <<0, 0, 0, 0, 0>>

BigAdd(a, b) ==
    LET s1 == a[1] + b[1]
        s2 == a[2] + b[2] + s1 \div Base
        s3 == a[3] + b[3] + s2 \div Base
        s4 == a[4] + b[4] + s3 \div Base
        s5 == a[5] + b[5] + s4 \div Base
    IN  <<s1 % Base, s2 % Base, s3 % Base, s4 % Base, s5>>

\* a - b for a >= b; a borrow is a quotient of -1
BigSub(a, b) ==
    LET s1 == a[1] - b[1]
        s2 == a[2] - b[2] + s1 \div Base
        s3 == a[3] - b[3] + s2 \div Base
        s4 == a[4] - b[4] + s3 \div Base
        s5 == a[5] - b[5] + s4 \div Base
    IN  <<s1 % Base, s2 % Base, s3 % Base, s4 % Base, s5>>

\* a * c for a machine integer 0 <= c <= 2000
BigMulSmall(a, c) ==
    LET s1 == a[1] * c
        s2 == a[2] * c + s1 \div Base
        s3 == a[3] * c + s2 \div Base
        s4 == a[4] * c + s3 \div Base
        s5 == a[5] * c + s4 \div Base
    IN  <<s1 % Base, s2 % Base, s3 % Base, s4 % Base, s5>>

\* the quotient of a by a machine integer 0 < c <= 2000
BigDivSmall(a, c) ==
    LET t5 == a[5]
        t4 == (t5 % c) * Base + a[4]
        t3 == (t4 % c) * Base + a[3]
        t2 == (t3 % c) * Base + a[2]
        t1 == (t2 % c) * Base + a[1]
    IN  <<t1 \div c, t2 \div c, t3 \div c, t4 \div c, t5 \div c>>

\* a < b, from the most significant limb down
BigLt(a, b) ==
    IF a[5] # b[5] THEN a[5] < b[5]
    ELSE IF a[4] # b[4] THEN a[4] < b[4]
    ELSE IF a[3] # b[3] THEN a[3] < b[3]
    ELSE IF a[2] # b[2] THEN a[2] < b[2]
    ELSE a[1] < b[1]

\* ------------------------------------------------------------------------
\* Real values.

\* 11 * 10^6 * 2^60 = 12 682136 550675 316736 000000
Unit == <<0, 316736, 550675, 682136, 12>>

\* float(n) for a whole number n >= 0
FromInt(n) == [w |-> n, f |-> BigZero]

Zero == FromInt(0)

Lt(x, y) == x.w < y.w \/ (x.w = y.w /\ BigLt(x.f, y.f))

Le(x, y) == ~Lt(y, x)

\* the value w + f / Unit for 0 <= f < 2 * Unit
Carry(w, f) ==
    IF BigLt(f, Unit) THEN [w |-> w, f |-> f]
    ELSE [w |-> w + 1, f |-> BigSub(f, Unit)]

\* x + y; a whole term leaves the other's fraction
Add(x, y) ==
    IF x.f = BigZero THEN [w |-> x.w + y.w, f |-> y.f]
    ELSE IF y.f = BigZero THEN [w |-> x.w + y.w, f |-> x.f]
    ELSE Carry(x.w + y.w, BigAdd(x.f, y.f))

\* x - y for x >= y; a whole y leaves x's fraction
Sub(x, y) ==
    IF y.f = BigZero THEN [w |-> x.w - y.w, f |-> x.f]
    ELSE IF BigLt(x.f, y.f)
    THEN [w |-> x.w - y.w - 1, f |-> BigSub(BigAdd(x.f, Unit), y.f)]
    ELSE [w |-> x.w - y.w, f |-> BigSub(x.f, y.f)]

\* x * p / d for machine integers 0 <= p <= 1000, 0 < d <= 1000, p <= 2 * d;
\* a whole x has a product with a fraction below 1
MulDiv(x, p, d) ==
    LET a == x.w \div d
        b == x.w % d
    IN  IF x.f = BigZero
        THEN [w |-> a * p + (b * p) \div d,
              f |-> BigDivSmall(BigMulSmall(Unit, (b * p) % d), d)]
        ELSE Carry(a * p + (b * p) \div d,
                   BigDivSmall(BigAdd(BigMulSmall(Unit, (b * p) % d),
                                      BigMulSmall(x.f, p)), d))

\* permille / 1000 * x, the form of every rate of the program
Rate(permille, x) == MulDiv(x, permille, 1000)

Half(x) == MulDiv(x, 1, 2)

Twice(x) == MulDiv(x, 2, 1)

Max(x, y) == IF Lt(x, y) THEN y ELSE x

AbsDiff(x, y) == IF Lt(x, y) THEN Sub(y, x) ELSE Sub(x, y)

\* math.ceil
Ceil(x) == IF x.f = BigZero THEN x.w ELSE x.w + 1

\* round(x, 0): to the nearest whole number, a tie to the even one
Round0(x) ==
    LET twice == BigMulSmall(x.f, 2)
    IN  IF x.f = BigZero \/ BigLt(twice, Unit) THEN x.w
        ELSE IF BigLt(Unit, twice) THEN x.w + 1
        ELSE IF x.w % 2 = 0 THEN x.w ELSE x.w + 1

\* ------------------------------------------------------------------------
\* PAYE (Rwanda, monthly brackets)

\* _paye_rwanda with the third bracket written without its base amount
_paye_rwanda_no_base(g) ==
    IF Le(g, FromInt(60000)) THEN Zero
    ELSE IF Le(g, FromInt(100000))
    THEN Rate(100, Sub(g, FromInt(60000)))
    ELSE IF Le(g, FromInt(200000))
    THEN Rate(200, Sub(g, FromInt(100000)))
    ELSE Add(FromInt(24000), Rate(300, Sub(g, FromInt(200000))))

_paye_rwanda(g) ==
    IF Le(g, FromInt(60000)) THEN Zero
    ELSE IF Le(g, FromInt(100000))
    THEN Rate(100, Sub(g, FromInt(60000)))
    ELSE IF Le(g, FromInt(200000))
    THEN Add(FromInt(4000), Rate(200, Sub(g, FromInt(100000))))
    ELSE Add(FromInt(24000), Rate(300, Sub(g, FromInt(200000))))

\* lines 35, 45: take_home_2
SetTakeHome2(v) == [v EXCEPT !.take_home_2 = Sub(v.net_salary, v.cbhi)]

\* cbhi taken from the gross pay instead of the net salary
SetCbhiOfGross(v) == [v EXCEPT !.cbhi = Rate(5, v.gross_pay)]

\* lines 34, 44: cbhi is 0.5% of the net salary
SetCbhi(v) == [v EXCEPT !.cbhi = Rate(5, v.net_salary)]

\* lines 32, 43
SetNetSalary(v) ==
    [v EXCEPT !.net_salary =
        Sub(v.gross_pay,
            Add(Add(Add(Add(v.paye, v.rssb_employer), v.rssb_employee),
                    v.maternity_employer), v.maternity_employee))]

\* lines 23-29, 38-42, 46: the amounts taken from the gross pay itself
OfGross(g, apply_tax) ==
    [paye |-> IF apply_tax THEN _paye_rwanda(g) ELSE Zero,
     rssb_employer |-> Rate(80, g),
     rssb_employee |-> Rate(60, g),
     maternity_employer |-> Rate(6, g),
     maternity_employee |-> Rate(3, g),
     net_salary |-> Zero,
     cbhi |-> Zero,
     take_home_2 |-> Zero,
     gross_pay |-> g]

\* Given gross and apply_tax, all the amounts
_calc_all(g, apply_tax) ==
    SetTakeHome2(SetCbhi(SetNetSalary(OfGross(g, apply_tax))))

\* ------------------------------------------------------------------------
\* rwanda_gross_for_take_home: the activation record of one call.  A missing
\* take_home (None) is the empty sequence, a given one <<n>>.

None == <<>>

\* "x or 0" followed by float(): None and 0 both give 0
OrZero(x) == IF x = None THEN 0 ELSE x[1]

\* round(vals[k], 0) for every key of a record of amounts
RoundAll(v) ==
    [paye |-> Round0(v.paye),
     rssb_employer |-> Round0(v.rssb_employer),
     rssb_employee |-> Round0(v.rssb_employee),
     maternity_employer |-> Round0(v.maternity_employer),
     maternity_employee |-> Round0(v.maternity_employee),
     net_salary |-> Round0(v.net_salary),
     cbhi |-> Round0(v.cbhi),
     take_home_2 |-> Round0(v.take_home_2),
     gross_pay |-> Round0(v.gross_pay)]

\* the fields of an activation record before they are assigned
NoVals ==
    [paye |-> Zero, rssb_employer |-> Zero, rssb_employee |-> Zero,
     maternity_employer |-> Zero, maternity_employee |-> Zero,
     net_salary |-> Zero, cbhi |-> Zero, take_home_2 |-> Zero,
     gross_pay |-> Zero]

NoRet ==
    [paye |-> 0, rssb_employer |-> 0, rssb_employee |-> 0,
     maternity_employer |-> 0, maternity_employee |-> 0,
     net_salary |-> 0, cbhi |-> 0, take_home_2 |-> 0, gross_pay |-> 0]

Idle ==
    [pc |-> "idle", take_home |-> None, apply_tax |-> FALSE, tolerance |-> 0,
     max_iter |-> 0, T |-> Zero, lo |-> Zero, hi |-> Zero, i |-> 0, j |-> 0,
     g |-> 0, n_inc |-> 0, vals |-> NoVals, ret |-> NoRet]

\* Start with the early return taken only for T < 0
StartBelowZero(take_home, apply_tax, tolerance, max_iter) ==
    LET th == OrZero(take_home)
        args == [Idle EXCEPT !.take_home = take_home, !.apply_tax = apply_tax,
                             !.tolerance = tolerance, !.max_iter = max_iter]
    IN  IF th < 0
        THEN [args EXCEPT !.pc = "done"]
        ELSE [args EXCEPT !.pc = "double", !.T = FromInt(th),
                          !.hi = Max(MulDiv(FromInt(th), 100, 55),
                                     FromInt(200000))]

\* lines 60-65: the record of the early return
EarlyReturn(args, vals) ==
    [args EXCEPT !.pc = "done", !.vals = vals,
                 !.ret = [RoundAll(vals) EXCEPT !.gross_pay = 0]]

\* lines 58-68: the early return for T <= 0, else the heuristic start
Start(take_home, apply_tax, tolerance, max_iter) ==
    LET th == OrZero(take_home)
        args == [Idle EXCEPT !.take_home = take_home, !.apply_tax = apply_tax,
                             !.tolerance = tolerance, !.max_iter = max_iter]
    IN  IF th <= 0
        THEN EarlyReturn(args, _calc_all(FromInt(0), apply_tax))
        ELSE [args EXCEPT !.pc = "double", !.T = FromInt(th), !.lo = FromInt(0),
                          !.hi = Max(MulDiv(FromInt(th), 100, 55),
                                     FromInt(200000))]

\* lines 69-72: one pass of "for _ in range(30)"
Doubling(s) ==
    IF s.i < 30
    THEN IF Le(s.T, _calc_all(s.hi, s.apply_tax).take_home_2)
         THEN [s EXCEPT !.pc = "bisect"]
         ELSE [s EXCEPT !.hi = Twice(s.hi), !.i = s.i + 1]
    ELSE [s EXCEPT !.pc = "bisect"]

\* lines 78-84: the tests on th2 at mid
Narrow(s, mid, th2) ==
    IF Le(AbsDiff(th2, s.T), FromInt(s.tolerance))
    THEN [s EXCEPT !.hi = mid, !.j = s.j + 1, !.pc = "ceil"]
    ELSE IF Lt(th2, s.T)
    THEN [s EXCEPT !.lo = mid, !.j = s.j + 1]
    ELSE [s EXCEPT !.hi = mid, !.j = s.j + 1]

\* lines 76-84
AtMid(s, mid) == Narrow(s, mid, _calc_all(mid, s.apply_tax).take_home_2)

\* lines 75-84: one pass of "for _ in range(max_iter)"
Bisection(s) ==
    IF s.j < s.max_iter
    THEN AtMid(s, Half(Add(s.lo, s.hi)))
    ELSE [s EXCEPT !.pc = "ceil"]

\* lines 87-88
RoundUp(s) ==
    LET g == Ceil(s.hi)
    IN  [s EXCEPT !.g = g, !.vals = _calc_all(FromInt(g), s.apply_tax),
                  !.pc = "ensure"]

\* lines 94-98: the final rounding and the return
Finish(s) ==
    [s EXCEPT !.pc = "done",
              !.ret = [RoundAll(s.vals) EXCEPT !.gross_pay = s.g]]

\* EnsureTarget without the loop: the rounded-up bound is returned as it is
EnsureTargetNoLoop(s) == Finish(s)

\* EnsureTarget with a loop body that recomputes vals at the same g
EnsureTargetSameG(s) ==
    IF Lt(s.vals.take_home_2, s.T)
    THEN [s EXCEPT !.n_inc = s.n_inc + 1,
                   !.vals = _calc_all(FromInt(s.g), s.apply_tax)]
    ELSE Finish(s)

\* lines 89-91: one test of "while vals[take_home_2] < T", then its body or
\* the statements after the loop
EnsureTarget(s) ==
    IF Lt(s.vals.take_home_2, s.T)
    THEN [s EXCEPT !.g = s.g + 1, !.n_inc = s.n_inc + 1,
                   !.vals = _calc_all(FromInt(s.g + 1), s.apply_tax)]
    ELSE Finish(s)

Step(s) ==
    CASE s.pc = "double" -> Doubling(s)
      [] s.pc = "bisect" -> Bisection(s)
      [] s.pc = "ceil"   -> RoundUp(s)
      [] s.pc = "ensure" -> EnsureTarget(s)

RECURSIVE Run(_)
Run(s) == IF s.pc = "done" THEN s ELSE Run(Step(s))

rwanda_gross_for_take_home(take_home, apply_tax, tolerance, max_iter) ==
    Run(Start(take_home, apply_tax, tolerance, max_iter)).ret

\* ------------------------------------------------------------------------
\* MonthlyPayroll: rows of the child table payroll_detail.

OutputFields ==
    {"gross_pay", "paye", "rssb_employer", "rssb_employee",
     "maternity_employer", "maternity_employee", "net_salary", "cbhi",
     "take_home_2"}

NewRow(employee, employee_type, take_home, apply_tax) ==
    [employee |-> employee, employee_type |-> employee_type,
     take_home |-> take_home, apply_tax |-> apply_tax,
     gross_pay |-> 0, paye |-> 0, rssb_employer |-> 0, rssb_employee |-> 0,
     maternity_employer |-> 0, maternity_employee |-> 0, net_salary |-> 0,
     cbhi |-> 0, take_home_2 |-> 0]

\* lines 137-148
NoTakeHome(row) ==
    [row EXCEPT !.gross_pay = 0, !.paye = 0, !.rssb_employer = 0,
                !.rssb_employee = 0, !.maternity_employer = 0,
                !.maternity_employee = 0, !.net_salary = 0, !.cbhi = 0,
                !.take_home_2 = 0]

\* lines 150-164
TaxOff(row, target_th) ==
    [row EXCEPT !.gross_pay = target_th, !.net_salary = target_th,
                !.take_home_2 = target_th, !.paye = 0, !.rssb_employer = 0,
                !.rssb_employee = 0, !.maternity_employer = 0,
                !.maternity_employee = 0, !.cbhi = 0]

\* lines 175-183
SetValues(row, vals) ==
    [row EXCEPT !.gross_pay = vals.gross_pay, !.paye = vals.paye,
                !.rssb_employer = vals.rssb_employer,
                !.rssb_employee = vals.rssb_employee,
                !.maternity_employer = vals.maternity_employer,
                !.maternity_employee = vals.maternity_employee,
                !.net_salary = vals.net_salary, !.cbhi = vals.cbhi,
                !.take_home_2 = vals.take_home_2]

\* lines 166-183
TaxOn(row, target_th) ==
    SetValues(row, rwanda_gross_for_take_home(<<target_th>>, TRUE, 1, 60))

\* calculate_row without the tax-exempt case
calculate_row_no_exempt(row) ==
    LET target_th == OrZero(row.take_home)
    IN  IF target_th <= 0 THEN NoTakeHome(row) ELSE TaxOn(row, target_th)

\* lines 134-183
calculate_row(row) ==
    LET target_th == OrZero(row.take_home)
    IN  IF target_th <= 0 THEN NoTakeHome(row)
        ELSE IF ~row.apply_tax THEN TaxOff(row, target_th)
        ELSE TaxOn(row, target_th)

\* lines 108-109: "for row in self.payroll_detail", from row i on
RECURSIVE CalculateRows(_, _)
CalculateRows(rows, i) ==
    IF i > Len(rows) THEN rows
    ELSE CalculateRows([rows EXCEPT ![i] = calculate_row(rows[i])], i + 1)

\* validate_duplicates throws: a non-empty employee on two rows
HasDuplicates(rows) ==
    \E a, b \in 1..Len(rows) :
        a < b /\ rows[a].employee # "" /\ rows[a].employee = rows[b].employee

types == <<"Academic", "Administrative", "Support">>

SummaryRecord(t) ==
    [employee_type |-> t, employee_count |-> 0, advance_pay |-> 0,
     net_salary |-> 0, net_minus_advance |-> 0, cost_to_company |-> 0]

\* lines 213-218: the body of "if t in summary"
AddRowTo(data, row) ==
    [data EXCEPT !.employee_count = @ + 1,
                 !.advance_pay = @ + OrZero(row.take_home),
                 !.net_salary = @ + row.net_salary,
                 !.cost_to_company = @ + row.gross_pay + row.rssb_employer
                                       + row.maternity_employer]

\* lines 210-218: "for row in self.payroll_detail", from row i on
RECURSIVE Aggregate(_, _, _)
Aggregate(summary, rows, i) ==
    IF i > Len(rows) THEN summary
    ELSE LET t == rows[i].employee_type
         IN  Aggregate(IF t \in DOMAIN summary
                       THEN [summary EXCEPT ![t] = AddRowTo(@, rows[i])]
                       ELSE summary,
                       rows, i + 1)

\* AddToTotal without the cost_to_company key
AddToTotalNoCost(total, data) ==
    [total EXCEPT !.employee_count = @ + data.employee_count,
                  !.advance_pay = @ + data.advance_pay,
                  !.net_salary = @ + data.net_salary,
                  !.net_minus_advance = @ + data.net_minus_advance]

\* lines 235-237: every numeric key of total takes the category's value
AddToTotal(total, data) ==
    [total EXCEPT !.employee_count = @ + data.employee_count,
                  !.advance_pay = @ + data.advance_pay,
                  !.net_salary = @ + data.net_salary,
                  !.net_minus_advance = @ + data.net_minus_advance,
                  !.cost_to_company = @ + data.cost_to_company]

\* line 233
NetMinusAdvance(data) ==
    [data EXCEPT !.net_minus_advance = data.net_salary - data.advance_pay]

\* lines 195-228 and 231-240: the records in the order they are appended
SummaryRecords(rows) ==
    LET summary == Aggregate([t \in {types[k] : k \in 1..3} |-> SummaryRecord(t)],
                             rows, 1)
        d1 == NetMinusAdvance(summary[types[1]])
        d2 == NetMinusAdvance(summary[types[2]])
        d3 == NetMinusAdvance(summary[types[3]])
        total == AddToTotal(AddToTotal(AddToTotal(SummaryRecord("Total"), d1),
                                       d2), d3)
    IN  <<d1, d2, d3, NetMinusAdvance(total)>>

\* calculate_summary appending to the child table as it finds it
calculate_summary_no_clear(rows, summary_by_type) ==
    summary_by_type \o SummaryRecords(rows)

\* lines 195-240; the child table is emptied (line 230) before the appends
calculate_summary(rows, summary_by_type) == <<>> \o SummaryRecords(rows)

NoTotals ==
    [total_cost |-> 0, advance_pay |-> 0, net_salary |-> 0,
     net_minus_advance |-> 0, total_paye |-> 0, total_rssb |-> 0,
     total_maternity |-> 0, total_cbhi |-> 0, total_taxes |-> 0]

\* AddRowToTotals counting only the rows of a recognised employee type
AddRowToTotalsRecognised(t, row) ==
    IF row.employee_type \in {types[k] : k \in 1..3}
    THEN [t EXCEPT !.total_cost = @ + row.gross_pay,
                   !.advance_pay = @ + OrZero(row.take_home),
                   !.net_salary = @ + row.net_salary,
                   !.total_paye = @ + row.paye,
                   !.total_rssb = @ + row.rssb_employee + row.rssb_employer,
                   !.total_maternity = @ + row.maternity_employee
                                         + row.maternity_employer,
                   !.total_cbhi = @ + row.cbhi]
    ELSE t

\* lines 255-261
AddRowToTotals(t, row) ==
    [t EXCEPT !.total_cost = @ + row.gross_pay,
              !.advance_pay = @ + OrZero(row.take_home),
              !.net_salary = @ + row.net_salary,
              !.total_paye = @ + row.paye,
              !.total_rssb = @ + row.rssb_employee + row.rssb_employer,
              !.total_maternity = @ + row.maternity_employee
                                    + row.maternity_employer,
              !.total_cbhi = @ + row.cbhi]

RECURSIVE FoldTotals(_, _, _)
FoldTotals(t, rows, i) ==
    IF i > Len(rows) THEN t
    ELSE FoldTotals(AddRowToTotals(t, rows[i]), rows, i + 1)

\* lines 245-278
calculate_totals(rows, monthly_payroll_totals) ==
    LET t == FoldTotals(NoTotals, rows, 1)
    IN  <<>> \o <<[t EXCEPT !.net_minus_advance = t.net_salary - t.advance_pay,
                            !.total_taxes = t.total_paye + t.total_rssb
                                            + t.total_maternity + t.total_cbhi]>>

\* ------------------------------------------------------------------------
\* State.  payroll_detail, summary_by_type and monthly_payroll_totals are the
\* document's child tables, sol the activation record of a solver call,
\* steps the number of loop tests and statements it has executed, probe and
\* prev the last two results of _calc_all.  status and passes
\* record the history of the document: "dirty" after a row was added,
\* "thrown" after validate raised in validate_duplicates, "valid" after
\* validate completed, and the number of completed passes since the last
\* change of the rows.

VARIABLES payroll_detail, summary_by_type, monthly_payroll_totals, status,
          passes, sol, steps, probe, prev

doc == <<payroll_detail, summary_by_type, monthly_payroll_totals, status, passes>>

vars == <<payroll_detail, summary_by_type, monthly_payroll_totals, status,
          passes, sol, steps, probe, prev>>

MaxRows == 2

MaxPasses == 2

MaxIncr == 5

ProbeSpan == 2

Employees == {"", "EMP-1"}

EmployeeTypes == {"Academic", "Administrative", "Support", "Intern"}

\* take_home and apply_tax of a new row: no target, tax-exempt, taxed
RowInputs == {<<None, TRUE>>, <<<<80694>>, FALSE>>, <<<<80694>>, TRUE>>}

SolverTargets ==
    {None, <<0 - 3>>, <<0>>, <<2>>, <<6>>, <<50>>, <<80000>>, <<100000>>,
     <<11000000>>, <<12100000>>}

Tolerances == {0, 1, 5}

MaxIters == {0, 3, 60}

\* gross values in half units: around 0, the bracket bounds and beyond
ProbeHalves ==
    (0..ProbeSpan)
    \cup UNION {((2 * b - ProbeSpan)..(2 * b + ProbeSpan)) :
                   b \in {60000, 100000, 200000}}
    \cup {2 * 300000}

Probe(h, apply_tax) ==
    [h |-> h, apply_tax |-> apply_tax,
     out |-> _calc_all(Half(FromInt(h)), apply_tax)]

Init ==
    /\ payroll_detail = <<>>
    /\ summary_by_type = <<>>
    /\ monthly_payroll_totals = <<>>
    /\ status = "dirty"
    /\ passes = 0
    /\ sol = Idle
    /\ steps = 0
    /\ probe = Probe(0, TRUE)
    /\ prev = Probe(0, TRUE)

\* ---- the document

AddRow ==
    /\ Len(payroll_detail) < MaxRows
    /\ \E e \in Employees, t \in EmployeeTypes, inp \in RowInputs :
          payroll_detail' = Append(payroll_detail, NewRow(e, t, inp[1], inp[2]))
    /\ status' = "dirty"
    /\ passes' = 0
    /\ UNCHANGED <<summary_by_type, monthly_payroll_totals, sol, steps, probe, prev>>

\* lines 103-115; exists is the answer of frappe.db.exists
validate ==
    /\ passes < MaxPasses
    /\ \E exists \in BOOLEAN :
          IF exists
          THEN UNCHANGED doc
          ELSE LET rows == CalculateRows(payroll_detail, 1)
               IN  /\ payroll_detail' = rows
                   /\ IF HasDuplicates(rows)
                      THEN /\ status' = "thrown"
                           /\ UNCHANGED <<summary_by_type,
                                          monthly_payroll_totals, passes>>
                      ELSE /\ summary_by_type' =
                                 calculate_summary(rows, summary_by_type)
                           /\ monthly_payroll_totals' =
                                 calculate_totals(rows, monthly_payroll_totals)
                           /\ status' = "valid"
                           /\ passes' = passes + 1
    /\ UNCHANGED <<sol, steps, probe, prev>>

Next == AddRow \/ validate

Spec == Init /\ [][Next]_vars

\* ---- one call of rwanda_gross_for_take_home, statement by statement

Call ==
    /\ sol.pc = "idle"
    /\ \E th \in SolverTargets, tax \in BOOLEAN, tol \in Tolerances, mi \in MaxIters :
          sol' = Start(th, tax, tol, mi)
    /\ steps' = 0
    /\ UNCHANGED <<doc, probe, prev>>

\* the call is at a statement it can execute
CanStep ==
    /\ sol.pc \in {"double", "bisect", "ceil", "ensure"}
    /\ sol.pc = "ensure" => sol.n_inc < MaxIncr

Tick == CanStep /\ steps' = steps + 1

DoublingStep ==
    sol.pc = "double" /\ sol' = Doubling(sol) /\ Tick /\ UNCHANGED <<doc, probe, prev>>

BisectionStep ==
    sol.pc = "bisect" /\ sol' = Bisection(sol) /\ Tick /\ UNCHANGED <<doc, probe, prev>>

RoundUpStep ==
    sol.pc = "ceil" /\ sol' = RoundUp(sol) /\ Tick /\ UNCHANGED <<doc, probe, prev>>

EnsureTargetStep ==
    sol.pc = "ensure" /\ sol' = EnsureTarget(sol) /\ Tick /\ UNCHANGED <<doc, probe, prev>>

Return ==
    sol.pc = "done" /\ sol' = Idle /\ steps' = 0 /\ UNCHANGED <<doc, probe, prev>>

SolverRun == DoublingStep \/ BisectionStep \/ RoundUpStep \/ EnsureTargetStep

SolverNext == Call \/ SolverRun \/ Return

\* A call that was started runs on, nothing suspends or pre-empts it: while
\* it is at a statement it can execute, it executes one.  Every step of
\* SolverRun is a Tick and SolverNext allows no other step that changes
\* steps while the call runs.
SolverSpec == Init /\ [][SolverNext]_vars /\ WF_steps(Tick)

\* ---- _calc_all on its own

CalcAll ==
    /\ \E h \in ProbeHalves, tax \in BOOLEAN : probe' = Probe(h, tax)
    /\ prev' = probe
    /\ UNCHANGED <<doc, sol, steps>>

CalcNext == CalcAll

CalcSpec == Init /\ [][CalcNext]_vars

\* ------------------------------------------------------------------------
\* Properties.

TH2(g, tax) == _calc_all(FromInt(g), tax).take_home_2

Returned == sol.pc = "done" /\ OrZero(sol.take_home) > 0

Defaults == sol.tolerance = 1 /\ sol.max_iter = 60

Deductions ==
    {"paye", "rssb_employer", "rssb_employee", "maternity_employer",
     "maternity_employee"}

\* C1: with the default tolerance and max_iter, the gross pay returned for a
\* target T > 0 is the smallest whole gross whose take_home_2 reaches T: one
\* unit less misses the target.
C1_Minimal ==
    (Returned /\ Defaults /\ sol.ret.gross_pay > 0)
        => Lt(TH2(sol.ret.gross_pay - 1, sol.apply_tax), sol.T)

\* C2: for every target T > 0, tolerance and max_iter, the gross pay
\* returned is the whole number the loop ended at, and the unrounded
\* take_home_2 at that gross is at least T.
C2_MeetsTarget ==
    Returned
        => /\ sol.ret.gross_pay = sol.g
           /\ sol.ret.gross_pay \in Nat
           /\ Le(sol.T, TH2(sol.ret.gross_pay, sol.apply_tax))

\* a call that returned after the increment loop had to raise the rounded bound
C2_Witness == Returned /\ sol.n_inc > 0 /\ sol.tolerance = 5

\* C3: for a target <= 0 or a missing one the solver returns, without a
\* single search step, the record _calc_all(0, apply_tax), whose nine fields
\* are all 0, and calculate_row sets the nine outputs of such a row to 0.
C3_ZeroTarget ==
    (sol.pc = "done" /\ OrZero(sol.take_home) <= 0)
        => /\ sol.ret = NoRet
           /\ sol.vals = _calc_all(Zero, sol.apply_tax)
           /\ \A k \in OutputFields : sol.vals[k] = Zero /\ sol.ret[k] = 0
           /\ sol.i = 0 /\ sol.j = 0 /\ sol.n_inc = 0 /\ sol.hi = Zero
           /\ \A k \in OutputFields :
                 calculate_row([NewRow("EMP-1", "Academic", sol.take_home,
                                       sol.apply_tax)
                                   EXCEPT !.gross_pay = 7, !.paye = 7,
                                          !.net_salary = 7, !.cbhi = 7,
                                          !.take_home_2 = 7])[k] = 0

\* a call with a missing target that returned
C3_Witness == sol.pc = "done" /\ sol.take_home = None /\ sol.apply_tax

\* C4: after calculate_row a row with take_home > 0 and apply_tax off has
\* gross_pay = net_salary = take_home_2 = take_home and no deductions; a
\* row without a target has nine zeros; a row with a target and apply_tax on
\* holds a gross pay above the target, with deductions.  The guards of the
\* three cases exclude each other and cover every row.
C4_TaxExempt ==
    status \in {"thrown", "valid"}
        => \A n \in 1..Len(payroll_detail) :
              LET row == payroll_detail[n]
                  th == OrZero(row.take_home)
                  none == th <= 0
                  exempt == th > 0 /\ ~row.apply_tax
                  solve == th > 0 /\ row.apply_tax
              IN  /\ exempt => /\ row.gross_pay = th
                               /\ row.net_salary = th
                               /\ row.take_home_2 = th
                               /\ \A k \in Deductions \cup {"cbhi"} : row[k] = 0
                  /\ none => \A k \in OutputFields : row[k] = 0
                  /\ solve => /\ row.gross_pay > th
                              /\ row.take_home_2 >= th
                              /\ row.rssb_employer > 0
                  /\ Cardinality({c \in {<<1, none>>, <<2, exempt>>, <<3, solve>>} :
                                     c[2]}) = 1

\* a validated document with a tax-exempt row and a solved row
C4_Witness ==
    /\ status = "valid"
    /\ \E n, m \in 1..Len(payroll_detail) :
          /\ payroll_detail[n].take_home # None
          /\ ~payroll_detail[n].apply_tax
          /\ payroll_detail[n].gross_pay = 80694
          /\ payroll_detail[m].apply_tax
          /\ payroll_detail[m].gross_pay > 80694

RECURSIVE SumSeq(_)
SumSeq(q) == IF q = <<>> THEN 0 ELSE q[1] + SumSeq(Tail(q))

Sum(rows, k) == SumSeq([n \in 1..Len(rows) |-> rows[n][k]])

Advance(rows) == SumSeq([n \in 1..Len(rows) |-> OrZero(rows[n].take_home)])

OfType(rows, t) == SelectSeq(rows, LAMBDA r : r.employee_type = t)

Recognised(rows) ==
    SelectSeq(rows, LAMBDA r : r.employee_type \in {types[k] : k \in 1..3})

\* C5: after a completed validate each of the three category records sums
\* the rows of its own employee_type only, so the three employee_counts add
\* up to the number of rows of a recognised type, which is the number of
\* rows exactly when every row is recognised; the totals record sums every
\* row, recognised or not.
C5_CategoryExclusion ==
    status = "valid"
        => LET rows == payroll_detail
               tot == monthly_payroll_totals[1]
               counted == SumSeq([k \in 1..3 |-> summary_by_type[k].employee_count])
           IN  /\ \A k \in 1..3 :
                     LET mine == OfType(rows, types[k])
                         rec == summary_by_type[k]
                     IN  /\ rec.employee_type = types[k]
                         /\ rec.employee_count = Len(mine)
                         /\ rec.advance_pay = Advance(mine)
                         /\ rec.net_salary = Sum(mine, "net_salary")
                         /\ rec.cost_to_company =
                               Sum(mine, "gross_pay") + Sum(mine, "rssb_employer")
                               + Sum(mine, "maternity_employer")
               /\ counted = Len(Recognised(rows))
               /\ counted <= Len(rows)
               /\ (counted = Len(rows)) <=> (Recognised(rows) = rows)
               /\ tot.total_cost = Sum(rows, "gross_pay")
               /\ tot.advance_pay = Advance(rows)
               /\ tot.net_salary = Sum(rows, "net_salary")
               /\ tot.total_paye = Sum(rows, "paye")
               /\ tot.total_rssb =
                     Sum(rows, "rssb_employee") + Sum(rows, "rssb_employer")
               /\ tot.total_maternity =
                     Sum(rows, "maternity_employee") + Sum(rows, "maternity_employer")
               /\ tot.total_cbhi = Sum(rows, "cbhi")

\* a validated document with a solved row of a recognised type and a solved
\* row of an unrecognised one
C5_Witness ==
    /\ status = "valid"
    /\ \E n, m \in 1..Len(payroll_detail) :
          /\ payroll_detail[n].employee_type = "Intern"
          /\ payroll_detail[n].paye > 0
          /\ payroll_detail[m].employee_type = "Support"
          /\ payroll_detail[m].paye > 0

\* C6: after a completed validate the Total record's employee_count,
\* advance_pay, net_salary and cost_to_company are the sums over the three
\* category records, and every record, Total included, has
\* net_minus_advance = net_salary - advance_pay.
C6_TotalRow ==
    status = "valid"
        => /\ Len(summary_by_type) = 4
           /\ summary_by_type[4].employee_type = "Total"
           /\ \A f \in {"employee_count", "advance_pay", "net_salary",
                        "cost_to_company"} :
                 summary_by_type[4][f] =
                     summary_by_type[1][f] + summary_by_type[2][f]
                     + summary_by_type[3][f]
           /\ \A k \in 1..4 :
                 summary_by_type[k].net_minus_advance =
                     summary_by_type[k].net_salary - summary_by_type[k].advance_pay

\* a validated document with rows in two categories
C6_Witness ==
    /\ status = "valid"
    /\ Len(summary_by_type) = 4
    /\ summary_by_type[1].cost_to_company > 0
    /\ summary_by_type[2].cost_to_company > 0
    /\ summary_by_type[4].employee_count = 2

\* C7: a validate pass over rows whose inputs did not change since the last
\* pass leaves the rows' outputs, summary_by_type and monthly_payroll_totals
\* as that pass left them, and after every completed pass summary_by_type
\* holds four records and monthly_payroll_totals one.
C7_Idempotent ==
    /\ [][(status \in {"thrown", "valid"} /\ status' = status)
              => /\ payroll_detail' = payroll_detail
                 /\ summary_by_type' = summary_by_type
                 /\ monthly_payroll_totals' = monthly_payroll_totals]_vars
    /\ [](status = "valid"
              => Len(summary_by_type) = 4 /\ Len(monthly_payroll_totals) = 1)

\* a second completed pass over the same rows, one of them solved
C7_Witness ==
    /\ status = "valid"
    /\ passes >= 2
    /\ \E n \in 1..Len(payroll_detail) : payroll_detail[n].paye > 0

\* C8: a call that was started returns; the doubling loop makes at most 30
\* passes, the bisection loop at most max_iter, and the increment loop
\* ends within MaxIncr passes.
C8_Terminates ==
    /\ [](/\ sol.i <= 30
          /\ sol.j <= sol.max_iter
          /\ (sol.pc = "ensure" /\ Lt(sol.vals.take_home_2, sol.T))
                 => sol.n_inc < MaxIncr)
    /\ (sol.pc # "idle") ~> (sol.pc = "done")

\* a call that returned after a doubling, bisections and an increment
C8_Witness == sol.pc = "done" /\ sol.i >= 1 /\ sol.j >= 1 /\ sol.n_inc >= 1

\* C9: for the same apply_tax, a larger gross gives a strictly larger
\* take_home_2 and no smaller paye, rssb and maternity amounts; paye is 0 at
\* 60000, 4000 at 100000 and 24000 at 200000, and between two gross values
\* it rises by no more than 30% of their distance (no jump at a bound).
C9_Monotone ==
    /\ (prev.apply_tax = probe.apply_tax /\ prev.h < probe.h)
          => /\ Lt(prev.out.take_home_2, probe.out.take_home_2)
             /\ \A k \in Deductions : Le(prev.out[k], probe.out[k])
             /\ Le(Sub(probe.out.paye, prev.out.paye),
                   Rate(300, Sub(probe.out.gross_pay, prev.out.gross_pay)))
    /\ probe.apply_tax
          => /\ probe.h = 2 * 60000 => probe.out.paye = Zero
             /\ probe.h = 2 * 100000 => probe.out.paye = FromInt(4000)
             /\ probe.h = 2 * 200000 => probe.out.paye = FromInt(24000)

\* two results with tax, half a unit below the bound 100000 and half a unit
\* above it
C9_Witness ==
    /\ prev.apply_tax /\ probe.apply_tax
    /\ prev.h = 2 * 100000 - 1 /\ probe.h = 2 * 100000 + 1

\* the three equations on a record of exact amounts
Balanced(v) ==
    /\ v.net_salary =
          Sub(v.gross_pay,
              Add(Add(Add(Add(v.paye, v.rssb_employer), v.rssb_employee),
                      v.maternity_employer), v.maternity_employee))
    /\ v.take_home_2 = Sub(v.net_salary, v.cbhi)
    /\ v.cbhi = Rate(5, v.net_salary)

\* the three equations on a record of whole amounts
BalancedWhole(r) ==
    /\ r.net_salary =
          r.gross_pay - (r.paye + r.rssb_employer + r.rssb_employee
                         + r.maternity_employer + r.maternity_employee)
    /\ r.take_home_2 = r.net_salary - r.cbhi
    /\ 1000 * r.cbhi = 5 * r.net_salary

\* C10 as stated: the record _calc_all returns and the rounded record the
\* solver returns both satisfy the three equations.
C10_Balanced ==
    /\ sol.pc \in {"ensure", "done"} => Balanced(sol.vals)
    /\ sol.pc = "done" => BalancedWhole(sol.ret)

\* C10 amended: the record _calc_all returns satisfies the three equations;
\* the record the solver returns holds gross_pay as the whole number found
\* and every other field of _calc_all at that gross rounded to the nearest
\* whole number, within half a unit of it.
C10_BalancedBeforeRounding ==
    /\ sol.pc \in {"ensure", "done"}
          => /\ Balanced(sol.vals)
             /\ sol.vals.gross_pay = FromInt(sol.g)
    /\ sol.pc = "done"
          => /\ sol.ret.gross_pay = sol.g
             /\ \A k \in OutputFields :
                   Le(Twice(AbsDiff(FromInt(sol.ret[k]), sol.vals[k])),
                      FromInt(1))

\* a returned record whose rounded amounts do not add up
C10_Witness == Returned /\ ~BalancedWhole(sol.ret) /\ Balanced(sol.vals)
=============================================================================
